---- MODULE Spec2Model ----
(***************************************************************************)
(* Model lifecycle and cache manager of the STARWEAVE image generation     *)
(* service (services/python/server/image_generation_servicer.py).          *)
(*                                                                         *)
(* Every block the code runs under self._models_lock is one atomic action. *)
(* Code that touches the registry without the lock is split at each shared *)
(* read and write, so that every thread interleaving of it is a behaviour. *)
(***************************************************************************)
EXTENDS Integers, Sequences, FiniteSets, Bags, TLC

\* ------------------------------------------------------------------------
\* Registry and configuration
\* ------------------------------------------------------------------------

\* _init_models registers two models, in this order.
NumModels == 2
\* "stabilityai/stable-diffusion-2-1"
DEFAULT_MODEL == 1
\* "runwayml/stable-diffusion-v1-5", the variant the load task substitutes
ALT_MODEL == 2
\* a model id that is not in self._models
UNREGISTERED == 0

ModelIds == 1 .. NumModels
\* iteration order of the dict self._models
Registry == [i \in 1 .. NumModels |-> i]

\* Bounds of the model
MaxClock == 1
MaxCount == 1
MaxMem == 1
MaxBurst == 2
MaxGenerations == 2
MaxOvertake == 1

\* values of the constructor argument max_models_in_memory that are explored
MaxModelsChoices == {1, 2}

\* footprints torch.cuda.memory_allocated() can report after a load
MemLevels == 1 .. MaxMem

\* ways the engine work of one load task can end
LoadOutcomes ==
    {"ok", "warmup_failed", "construct_error", "missing_component",
     "wrong_type", "sample_size", "unexpected"}

\* the outcomes of the success path if a failed warm-up raised
SuccessOutcomes_strict == {"ok"}

\* outcomes after which the task takes the success path: _warmup_model
\* returns its error, which _load only logs
SuccessOutcomes == {"ok", "warmup_failed"}

\* results of reading the device memory in a sweep: the reading raises, or
\* allocated <= 90% of the total, or allocated > 90% of the total
Readings == {"raises", "low", "high"}

\* results of re-reading the device memory after one eviction in the
\* memory-pressure step: the reading raises, allocated <= 70%, or not
ReReadings == {"raises", "enough", "more"}

\* contents of a file: none, a torn document, or a complete document
NoFile == [kind |-> "absent", data |-> <<>>]
Partial == [kind |-> "partial", data |-> <<>>]
Document(d) == [kind |-> "complete", data |-> d]

\* ------------------------------------------------------------------------
\* State
\* ------------------------------------------------------------------------
VARIABLES
    models,                 \* self._models: model id -> ModelInfo
    tasks,                  \* bag of running ModelLoader threads
    stop_event,             \* self._stop_event
    max_models_in_memory,   \* self.max_models_in_memory
    cuda,                   \* torch.cuda.is_available()
    pc,                     \* position of the cleanup, disk and stop threads
    cache_data,             \* cache_data of each thread's metadata save
    tmpFile,                \* contents of cache_metadata.json.tmp
    metaFile,               \* contents of cache_metadata.json
    cacheDirs,              \* subdirectories of model_dir/diffusers
    evicted,                \* models whose handle the last step dropped
    burst,                  \* the getOrLoad calls made while one load runs
    request,                \* a GenerateImage call: position and locals
    sweep,                  \* what the memory sweep of the last step met
    ended,                  \* how the load task of the last step ended
    posix,                  \* os.name == 'posix'
    generation,             \* servicers constructed on the model directory
    lock,                   \* the thread inside "with self._models_lock"
    made                    \* directories the load tasks have created

vars ==
    <<models, tasks, stop_event, max_models_in_memory, cuda, pc,
      cache_data, tmpFile, metaFile, cacheDirs, evicted, burst, request,
      sweep, ended, posix, generation, lock, made>>

\* the threads besides the request handlers and the model loaders
Threads == {"cleanup", "disk", "stop"}
\* the threads that call _save_cache_metadata
Savers == {"cleanup", "stop"}

\* ModelInfo(config=config): the dataclass defaults.  load_error is 0 for
\* None and otherwise the model id the recorded message names.
NewModelInfo ==
    [pipeline |-> FALSE, loaded |-> FALSE, loading |-> FALSE,
     load_error |-> 0, last_used |-> 0, memory_usage |-> 0,
     load_count |-> 0, error_count |-> 0]

\* ------------------------------------------------------------------------
\* Helpers
\* ------------------------------------------------------------------------

\* the test "info.loaded and info.pipeline is not None" of the sweeps
IsResident(info) == info.loaded /\ info.pipeline

\* loaded_models of _cleanup_models: resident models in registry order
LoadedModels(ms) == SelectSeq(Registry, LAMBDA m : IsResident(ms[m]))

\* phase of a model as _load_model classifies it: loaded is tested first,
\* then loading; a model with neither flag is unloaded
Phase(info) ==
    IF info.loaded THEN "loaded"
    ELSE IF info.loading THEN "loading"
    ELSE "unloaded"

\* a ModelLoader thread: the model it was started for and its position
Task(m, p) == [model |-> m, pc |-> p]

\* load tasks in the bag that were started for model m
TasksFor(bag, m) == {t \in BagToSet(bag) : t.model = m}

\* number of load tasks for model m that are executing _load's try block
RunningFor(bag, m) == CopiesIn(Task(m, "run"), bag)

AddTask(bag, t) == bag (+) SetToBag({t})
RemoveTask(bag, t) == bag (-) SetToBag({t})

\* cache_data built by _save_cache_metadata
CacheData(ms) ==
    [m \in ModelIds |->
        [last_used |-> ms[m].last_used,
         load_count |-> ms[m].load_count,
         error_count |-> ms[m].error_count]]

Max2(a, b) == IF a >= b THEN a ELSE b
Min2(a, b) == IF a <= b THEN a ELSE b

\* ------------------------------------------------------------------------
\* _unload_model
\* ------------------------------------------------------------------------

\* raises says whether pipeline.to('cpu') or torch.cuda.empty_cache() raises.
\* Both run before the handle is dropped, so the except branch counts the
\* error and leaves pipeline and loaded as they were.
\* a variant of _unload_model that drops the handle and forgets to clear
\* the loaded flag
unload_model_keeps_flag(ms, m, raises) ==
    IF ~ms[m].pipeline THEN ms
    ELSE IF raises THEN [ms EXCEPT ![m].error_count = @ + 1]
    ELSE [ms EXCEPT ![m].pipeline = FALSE]

\* a variant of _unload_model that does not count a release error
unload_model_uncounted(ms, m, raises) ==
    IF ~ms[m].pipeline \/ raises THEN ms
    ELSE [ms EXCEPT ![m].pipeline = FALSE, ![m].loaded = FALSE]

unload_model(ms, m, raises) ==
    IF ~ms[m].pipeline THEN ms
    ELSE IF raises THEN [ms EXCEPT ![m].error_count = @ + 1]
    ELSE [ms EXCEPT ![m].pipeline = FALSE, ![m].loaded = FALSE]

\* ------------------------------------------------------------------------
\* _cleanup_models
\* ------------------------------------------------------------------------

\* key (last_used, error_count) of loaded_models.sort: a sorts no later than b
LruLE(ms, a, b) ==
    \/ ms[a].last_used < ms[b].last_used
    \/ /\ ms[a].last_used = ms[b].last_used
       /\ ms[a].error_count <= ms[b].error_count

\* list.sort is stable: x goes after every element that sorts no later
RECURSIVE InsertLru(_, _, _)
InsertLru(ms, s, x) ==
    IF s = <<>> THEN <<x>>
    ELSE IF LruLE(ms, Head(s), x) THEN <<Head(s)>> \o InsertLru(ms, Tail(s), x)
    ELSE <<x>> \o s

RECURSIVE SortLru(_, _)
SortLru(ms, s) ==
    IF s = <<>> THEN <<>>
    ELSE InsertLru(ms, SortLru(ms, SubSeq(s, 1, Len(s) - 1)), s[Len(s)])

\* sort(key=memory_usage, reverse=True): descending, equal keys keep order
RECURSIVE InsertMem(_, _, _)
InsertMem(ms, s, x) ==
    IF s = <<>> THEN <<x>>
    ELSE IF ms[Head(s)].memory_usage >= ms[x].memory_usage
         THEN <<Head(s)>> \o InsertMem(ms, Tail(s), x)
    ELSE <<x>> \o s

RECURSIVE SortMem(_, _)
SortMem(ms, s) ==
    IF s = <<>> THEN <<>>
    ELSE InsertMem(ms, SortMem(ms, SubSeq(s, 1, Len(s) - 1)), s[Len(s)])

\* the loop over loaded_models[:num_to_unload]; n is len(loaded_models)
RECURSIVE CountLoop(_, _, _, _, _)
CountLoop(ms, victims, n, max, rel) ==
    IF victims = <<>> THEN ms
    ELSE LET m == Head(victims)
         IN IF m = DEFAULT_MODEL /\ n > 1
            THEN CountLoop(ms, Tail(victims), n, max, rel)
            ELSE LET ms2 == unload_model(ms, m, rel[m])
                 IN IF Len(LoadedModels(ms2)) <= max THEN ms2
                    ELSE CountLoop(ms2, Tail(victims), n, max, rel)

\* the loop over loaded_models[1:] of the except branch
RECURSIVE FallbackLoop(_, _, _, _)
FallbackLoop(ms, rest, max, rel) ==
    IF rest = <<>> THEN ms
    ELSE LET ms2 == unload_model(ms, Head(rest), rel[Head(rest)])
         IN IF Cardinality({m \in ModelIds : ms2[m].loaded})
                   <= Max2(1, max \div 2)
            THEN ms2
            ELSE FallbackLoop(ms2, Tail(rest), max, rel)

\* the except branch: conservative cleanup when the memory cannot be read
Fallback(ms, lm, max, rel) ==
    IF Len(lm) > 1 THEN FallbackLoop(ms, Tail(lm), max, rel) ELSE ms

\* a variant of the memory-pressure loop without the test that skips the
\* default model
RECURSIVE PressureLoop_no_skip(_, _, _, _, _, _)
PressureLoop_no_skip(ms, rest, lm, max, reread, rel) ==
    IF rest = <<>> THEN ms
    ELSE LET m == Head(rest)
             ms2 == unload_model(ms, m, rel[m])
         IN CASE reread[m] = "raises" -> Fallback(ms2, lm, max, rel)
              [] reread[m] = "enough" -> ms2
              [] OTHER ->
                    PressureLoop_no_skip(ms2, Tail(rest), lm, max, reread,
                                         rel)

\* the loop of the memory-pressure step over loaded_models, largest first;
\* reread[m] is the reading taken after unloading m
RECURSIVE PressureLoop(_, _, _, _, _, _)
PressureLoop(ms, rest, lm, max, reread, rel) ==
    IF rest = <<>> THEN ms
    ELSE LET m == Head(rest)
         IN IF m = DEFAULT_MODEL /\ Len(lm) > 1
            THEN PressureLoop(ms, Tail(rest), lm, max, reread, rel)
            ELSE LET ms2 == unload_model(ms, m, rel[m])
                 IN CASE reread[m] = "raises" -> Fallback(ms2, lm, max, rel)
                      [] reread[m] = "enough" -> ms2
                      [] OTHER ->
                            PressureLoop(ms2, Tail(rest), lm, max, reread, rel)

\* a variant of the resident-count step that already runs when the
\* resident count has reached the maximum, to make room for one more
CountStep_at_limit(ms, max, rel) ==
    LET lm == LoadedModels(ms)
    IN IF Len(lm) >= max
       THEN LET sorted == SortLru(ms, lm)
                num_to_unload == Len(lm) - max + 1
            IN [ms |-> CountLoop(ms, SubSeq(sorted, 1, num_to_unload),
                                 Len(sorted), max, rel),
                lm |-> sorted]
       ELSE [ms |-> ms, lm |-> lm]

\* the resident-count step: returns the registry and loaded_models, which
\* the step sorts in place when it runs
CountStep(ms, max, rel) ==
    LET lm == LoadedModels(ms)
    IN IF Len(lm) > max
       THEN LET sorted == SortLru(ms, lm)
                num_to_unload == Len(lm) - max
            IN [ms |-> CountLoop(ms, SubSeq(sorted, 1, num_to_unload),
                                 Len(sorted), max, rel),
                lm |-> sorted]
       ELSE [ms |-> ms, lm |-> lm]

\* a variant of _cleanup_models whose memory-pressure step does not test
\* the first reading against the 90% threshold
cleanup_models_no_threshold(ms, max, hasCuda, reading, reread, relCount, relMem) ==
    LET c == CountStep(ms, max, relCount)
    IN IF ~hasCuda THEN c.ms
       ELSE CASE reading = "raises" -> Fallback(c.ms, c.lm, max, relMem)
              [] OTHER ->
                    LET bySize == SortMem(c.ms, c.lm)
                    IN PressureLoop(c.ms, bySize, bySize, max, reread, relMem)

\* the whole of _cleanup_models, run under the lock
cleanup_models(ms, max, hasCuda, reading, reread, relCount, relMem) ==
    LET c == CountStep(ms, max, relCount)
    IN IF ~hasCuda THEN c.ms
       ELSE CASE reading = "raises" -> Fallback(c.ms, c.lm, max, relMem)
              [] reading = "low" -> c.ms
              [] OTHER ->
                    LET bySize == SortMem(c.ms, c.lm)
                    IN PressureLoop(c.ms, bySize, bySize, max, reread, relMem)

\* ------------------------------------------------------------------------
\* stop: the loop that unloads every resident model
\* ------------------------------------------------------------------------
RECURSIVE UnloadEach(_, _, _)
UnloadEach(ms, ids, rel) ==
    IF ids = <<>> THEN ms
    ELSE LET m == Head(ids)
         IN UnloadEach(IF IsResident(ms[m]) THEN unload_model(ms, m, rel[m])
                       ELSE ms,
                       Tail(ids), rel)

\* a variant of the shutdown loop that resets every registered model,
\* resident or not
stop_unload_all_reset(ms, rel) ==
    [m \in ModelIds |->
        [ms[m] EXCEPT !.pipeline = FALSE, !.loaded = FALSE,
                      !.loading = FALSE]]

stop_unload_all(ms, rel) == UnloadEach(ms, Registry, rel)

\* ------------------------------------------------------------------------
\* _load_model: the part that runs in the caller's thread
\* ------------------------------------------------------------------------

\* model_info.loading = True
\* a variant of the marking that leaves the loading flag alone
MarkLoading_skipped(ms, m) == ms

MarkLoading(ms, m) == [ms EXCEPT ![m].loading = TRUE]

\* a variant of _load_model that gives up on a model whose last load
\* failed
load_model_no_retry(ms, id) ==
    IF id \notin ModelIds THEN [ms |-> ms, start |-> FALSE, ret |-> FALSE]
    ELSE IF ms[id].loaded THEN [ms |-> ms, start |-> FALSE, ret |-> TRUE]
    ELSE IF ms[id].loading \/ ms[id].load_error # 0
         THEN [ms |-> ms, start |-> FALSE, ret |-> FALSE]
    ELSE [ms |-> MarkLoading(ms, id), start |-> TRUE, ret |-> TRUE]

\* _load_model run as one step (the caller holds the lock): the registry
\* afterwards, whether a ModelLoader thread is started, and the return value
load_model(ms, id) ==
    IF id \notin ModelIds THEN [ms |-> ms, start |-> FALSE, ret |-> FALSE]
    ELSE IF ms[id].loaded THEN [ms |-> ms, start |-> FALSE, ret |-> TRUE]
    ELSE IF ms[id].loading THEN [ms |-> ms, start |-> FALSE, ret |-> FALSE]
    ELSE [ms |-> MarkLoading(ms, id), start |-> TRUE, ret |-> TRUE]

\* ------------------------------------------------------------------------
\* _cleanup_disk_cache
\* ------------------------------------------------------------------------

\* max_disk_cache_gb, in the unit the directory sizes are counted in
max_disk_cache == 8

\* A directory under model_dir/diffusers: its name, os.path.getatime and
\* _get_disk_usage, and what the last disk sweep did with it: "present"
\* (left alone), "removed" (rmtree returned; the directory is gone),
\* "failed" (rmtree raised) or "skipped" (getatime or the size scan raised)
Dir(n, atime, sz) ==
    [name |-> n, last_used |-> atime, size |-> sz, last |-> "present"]

\* the example of three directories of sizes 5, 3 and 2, oldest first
InitCacheDirs == <<Dir(1, 0, 5), Dir(2, 1, 3), Dir(3, 2, 2)>>

\* bounds of the directory lists the disk sweep is run on
MaxDirs == 3
MaxAtime == 2
MaxFaulty == 1

DirNames == 1 .. MaxDirs
DirSizes == {2, 3, 5}

\* the directory lists the service can find at start, in iterdir order
DiskInputs ==
    UNION {
        {[i \in 1 .. n |-> Dir(i, atimes[i], sizes[i])] :
            atimes \in [1 .. n -> 0 .. MaxAtime],
            sizes \in [1 .. n -> DirSizes]} :
        n \in 0 .. MaxDirs}

\* the directories that are on disk
OnDisk(dirs) == SelectSeq(dirs, LAMBDA d : d.last # "removed")

\* model_dirs.sort(key=last_used) is stable
RECURSIVE InsertDir(_, _)
InsertDir(s, x) ==
    IF s = <<>> THEN <<x>>
    ELSE IF Head(s).last_used <= x.last_used
         THEN <<Head(s)>> \o InsertDir(Tail(s), x)
    ELSE <<x>> \o s

RECURSIVE SortDirs(_)
SortDirs(s) ==
    IF s = <<>> THEN <<>>
    ELSE InsertDir(SortDirs(SubSeq(s, 1, Len(s) - 1)), s[Len(s)])

RECURSIVE SumSizes(_)
SumSizes(s) == IF s = <<>> THEN 0 ELSE Head(s).size + SumSizes(Tail(s))

\* a variant of the test that compares with the whole quota
OverTarget_quota(total) == total > max_disk_cache

\* total_size > self.max_disk_cache_bytes * 0.9
OverTarget(total) == 10 * total > 9 * max_disk_cache

\* a variant of the loop that subtracts the size of a directory whose
\* removal raised
RECURSIVE DiskLoop_counts_failed(_, _, _, _, _)
DiskLoop_counts_failed(model_dirs, total_size, removed, failed, fails) ==
    IF model_dirs = <<>> \/ ~OverTarget(total_size)
    THEN [removed |-> removed, failed |-> failed]
    ELSE LET oldest == Head(model_dirs)
         IN IF oldest.name \in fails
            THEN DiskLoop_counts_failed(Tail(model_dirs),
                                        total_size - oldest.size, removed,
                                        failed \cup {oldest.name}, fails)
            ELSE DiskLoop_counts_failed(Tail(model_dirs),
                                        total_size - oldest.size,
                                        removed \cup {oldest.name}, failed,
                                        fails)

\* the while loop: the names of the directories shutil.rmtree removed and
\* of those for which it raised; fails is the set of directories for which
\* rmtree raises
RECURSIVE DiskLoop(_, _, _, _, _)
DiskLoop(model_dirs, total_size, removed, failed, fails) ==
    IF model_dirs = <<>> \/ ~OverTarget(total_size)
    THEN [removed |-> removed, failed |-> failed]
    ELSE LET oldest == Head(model_dirs)
         IN IF oldest.name \in fails
            THEN DiskLoop(Tail(model_dirs), total_size, removed,
                          failed \cup {oldest.name}, fails)
            ELSE DiskLoop(Tail(model_dirs), total_size - oldest.size,
                          removed \cup {oldest.name}, failed, fails)

\* the whole of _cleanup_disk_cache run on the directories dirs: the same
\* list, each directory with what the sweep did with it.  unreadable is the
\* set of directories whose getatime or size scan raises.
cleanup_disk_cache(dirs, unreadable, fails) ==
    LET model_dirs ==
            SortDirs(SelectSeq(dirs, LAMBDA d : d.name \notin unreadable))
        done == DiskLoop(model_dirs, SumSizes(model_dirs), {}, {}, fails)
    IN [i \in 1 .. Len(dirs) |->
          [dirs[i] EXCEPT !.last =
              IF dirs[i].name \in unreadable THEN "skipped"
              ELSE IF dirs[i].name \in done.removed THEN "removed"
              ELSE IF dirs[i].name \in done.failed THEN "failed"
              ELSE "present"]]

\* History of one burst of getOrLoad calls.  A burst begins with a call for
\* a model that is unloaded and has no load task, and lasts until a load
\* task of that model makes its terminal transition.  It records the model,
\* the calls made (counted up to MaxBurst) and the load tasks they started.
NoBurst == [recording |-> TRUE, model |-> UNREGISTERED, calls |-> 0,
            started |-> 0]

\* the value of burst in the specifications that keep no history
NotRecorded == [recording |-> FALSE, model |-> UNREGISTERED, calls |-> 0,
                started |-> 0]

\* the burst after a getOrLoad call for id that started d load tasks
CountCall(id, idle, d) ==
    IF burst = NoBurst
    THEN IF idle
         THEN [recording |-> TRUE, model |-> id, calls |-> 1, started |-> d]
         ELSE burst
    ELSE IF burst.recording /\ burst.model = id
         THEN [burst EXCEPT !.calls = Min2(@ + 1, MaxBurst), !.started = @ + d]
    ELSE burst

\* a terminal transition of a load task for m ends the burst of m
EndBurst(m) ==
    burst' = IF burst.recording /\ burst.model = m THEN NoBurst ELSE burst

\* The memory readings and release errors of a memory sweep, kept for the
\* step that makes the sweep: reading is the first reading of the device
\* memory, reread[m] the reading after unloading m, relCount[m] and
\* relMem[m] whether releasing m raises in the resident-count step and in
\* the memory steps.  NoSweep after every other step; NotLogged throughout
\* in the specifications that do not follow the sweeps.
NoSweep == [swept |-> FALSE, logged |-> TRUE]
NotLogged == [swept |-> FALSE, logged |-> FALSE]
Unlogged == IF sweep = NotLogged THEN NotLogged ELSE NoSweep
SweepLog(reading, reread, relCount, relMem) ==
    IF sweep = NotLogged THEN NotLogged
    ELSE [swept |-> TRUE, logged |-> TRUE, reading |-> reading,
          reread |-> reread, relCount |-> relCount, relMem |-> relMem]

\* The directories under self.model_dir that matter to the disk cache:
\* the load task of model m creates model_dir/md5(m) (lines 528-529) and
\* hands it to from_pretrained as its cache_dir; the disk sweep scans the
\* subdirectories of model_dir/"diffusers" (line 259).  A directory is
\* its parent and its name, the digest being written as the model.
ModelRoot == "model_dir"
CacheRoot == "model_dir/diffusers"
LoaderDir(m) == [parent |-> ModelRoot, name |-> m]

\* made when the specification does not follow the directories
NotTracked == {[parent |-> "untracked", name |-> UNREGISTERED]}

\* model_dir.mkdir(parents=True, exist_ok=True)
Mkdir(m) == IF made = NotTracked THEN made ELSE made \cup {LoaderDir(m)}

\* self._models_lock: nobody is inside it, a load task of model m is, or
\* a caller of _get_model_info ("request") or of GetImageModels ("list")
NoHolder == [kind |-> "none", model |-> UNREGISTERED]
TaskHolder(m) == [kind |-> "task", model |-> m]
CallHolder(call) == [kind |-> call, model |-> UNREGISTERED]

\* the locals of GenerateImage when no call is running: model is model_id,
\* dispatched tells whether its _get_model_info call started a load task,
\* pipe whether the local pipe holds a pipeline, seen is the error_count
\* the error handler has read
NoRequest ==
    [pc |-> "idle", model |-> UNREGISTERED, dispatched |-> FALSE,
     pipe |-> FALSE, seen |-> 0]

\* ------------------------------------------------------------------------
\* GetImageModels (listModels): reads the registry under the lock and
\* changes nothing
\* ------------------------------------------------------------------------

\* parameters["status"] of one entry: "loaded" or "not_loaded" by the
\* loaded flag, replaced by "loading" when loading is set, and otherwise by
\* the error text when load_error is set
Status(info) ==
    IF info.loading THEN "loading"
    ELSE IF info.load_error # 0 THEN "error"
    ELSE IF info.loaded THEN "loaded"
    ELSE "not_loaded"

\* the response: one entry for each item of self._models, in its order
GetImageModels(ms) ==
    [i \in 1 .. Len(Registry) |->
        [id |-> Registry[i],
         status |-> Status(ms[Registry[i]]),
         memory_usage |-> ms[Registry[i]].memory_usage,
         load_count |-> ms[Registry[i]].load_count,
         error_count |-> ms[Registry[i]].error_count]]

\* ------------------------------------------------------------------------
\* _load_cache_metadata
\* ------------------------------------------------------------------------

\* the registry as _init_models builds it
InitModels == [m \in ModelIds |-> NewModelInfo]

\* an entry of the document whose value is no JSON object
Scalar == [scalar |-> TRUE]

\* model_info.get(key, 0)
Get(entry, key) == IF key \in DOMAIN entry THEN entry[key] ELSE 0

\* cache_data.items(): the ids of a document in the order of the file
RECURSIVE Items(_)
Items(ids) ==
    IF ids = {} THEN <<>>
    ELSE LET id == CHOOSE i \in ids : \A j \in ids : i <= j
         IN <<id>> \o Items(ids \ {id})

\* a variant of the loop of _load_cache_metadata that restores no
\* error_count
LoadItems_no_errors(ms, data, ids) ==
    [m \in ModelIds |->
        IF m \in DOMAIN data
        THEN [ms[m] EXCEPT !.last_used = Get(data[m], "last_used"),
                           !.load_count = Get(data[m], "load_count")]
        ELSE ms[m]]

\* the loop of _load_cache_metadata: an id that is not registered is
\* passed over, a registered id takes the three counters of its entry, and
\* an entry that is no object raises at its first get(), which ends the
\* loop with the entries before it applied
RECURSIVE LoadItems(_, _, _)
LoadItems(ms, data, ids) ==
    IF ids = <<>> THEN ms
    ELSE LET id == Head(ids)
             entry == data[id]
         IN IF id \notin ModelIds THEN LoadItems(ms, data, Tail(ids))
            ELSE IF entry = Scalar THEN ms
            ELSE LoadItems(
                   [ms EXCEPT
                       ![id].last_used = Get(entry, "last_used"),
                       ![id].load_count = Get(entry, "load_count"),
                       ![id].error_count = Get(entry, "error_count")],
                   data, Tail(ids))

\* a variant of _load_cache_metadata without the test "model_id in
\* self._models": every entry of the document gets a state
load_cache_metadata_unchecked(ms, file) ==
    IF file.kind # "complete" THEN ms
    ELSE [id \in ModelIds \cup DOMAIN file.data |->
            IF id \notin DOMAIN file.data THEN ms[id]
            ELSE [NewModelInfo EXCEPT
                    !.last_used = Get(file.data[id], "last_used"),
                    !.load_count = Get(file.data[id], "load_count"),
                    !.error_count = Get(file.data[id], "error_count")]]

\* _load_cache_metadata: no file, nothing to do; a file that does not
\* parse raises in json.load and the except branch logs it
load_cache_metadata(ms, file) ==
    IF file.kind # "complete" THEN ms
    ELSE LoadItems(ms, file.data, Items(DOMAIN file.data))

\* __init__: _init_models, _load_cache_metadata, _load_model(DEFAULT_MODEL)
Construct(file) ==
    MarkLoading(load_cache_metadata(InitModels, file), DEFAULT_MODEL)

\* the documents a model directory can hold that no save has written:
\* an entry for an id that is not registered, an entry that lacks keys,
\* an entry that is no object
Entry(lu, lc, ec) == [last_used |-> lu, load_count |-> lc, error_count |-> ec]
ForeignFiles ==
    {Document(UNREGISTERED :> Entry(1, 1, 1)),
     Document(UNREGISTERED :> Entry(1, 1, 1)
                @@ ALT_MODEL :> [load_count |-> 1]),
     Document(DEFAULT_MODEL :> Entry(0, 1, 0) @@ ALT_MODEL :> Scalar)}

\* the end of a load task, kept for the step that follows it: no task
\* ended in the last step, or the specification keeps no such note, or the
\* model of the task and the outcome of its engine work
NoEnd == [noted |-> TRUE, model |-> UNREGISTERED, outcome |-> "none"]
NotNoted == [noted |-> FALSE, model |-> UNREGISTERED, outcome |-> "none"]
Unended == IF ended = NotNoted THEN NotNoted ELSE NoEnd
EndNote(m, o) ==
    IF ended = NotNoted THEN NotNoted
    ELSE [noted |-> TRUE, model |-> m, outcome |-> o]

\* ------------------------------------------------------------------------
\* Initial state: the servicer as __init__ leaves it
\* ------------------------------------------------------------------------

\* _init_models, then _load_model(DEFAULT_MODEL), then the two maintenance
\* threads are started.  The model directory is new: no metadata file.
InitService ==
    /\ models = Construct(NoFile)
    /\ tasks = SetToBag({Task(DEFAULT_MODEL, "run")})
    /\ stop_event = FALSE
    /\ max_models_in_memory \in MaxModelsChoices
    /\ cuda \in BOOLEAN
    /\ pc = [th \in Threads |-> "idle"]
    /\ cache_data = [th \in Savers |-> NoFile]
    /\ tmpFile = NoFile
    /\ metaFile = NoFile
    /\ evicted = {}
    /\ request = NoRequest
    /\ generation = 1
    /\ lock = NoHolder

\* the initial state of the specifications that keep no history
Init ==
    /\ InitService
    /\ burst = NotRecorded
    /\ cacheDirs = <<>>
    /\ sweep = NotLogged
    /\ ended = NotNoted
    /\ made = NotTracked
    /\ posix = TRUE

\* the initial states of the specification that follows the memory sweeps
InitSweep ==
    /\ InitService
    /\ burst = NotRecorded
    /\ cacheDirs = <<>>
    /\ sweep = NoSweep
    /\ ended = NotNoted
    /\ made = NotTracked
    /\ posix = TRUE

\* the initial states of the specification that notes how load tasks end
InitLoads ==
    /\ InitService
    /\ burst = NotRecorded
    /\ cacheDirs = <<>>
    /\ sweep = NotLogged
    /\ ended = NoEnd
    /\ made = NotTracked
    /\ posix = TRUE

\* the initial states of the specification that follows the metadata
\* files: the model directory holds no metadata file or one that no save
\* has written, and __init__ has read it.  No sweep of these runs evicts:
\* the cap is the default of __init__ and there is no device.
InitFiles ==
    /\ metaFile \in {NoFile, Partial} \cup ForeignFiles
    /\ tmpFile = NoFile
    /\ models = Construct(metaFile)
    /\ tasks = SetToBag({Task(DEFAULT_MODEL, "run")})
    /\ stop_event = FALSE
    /\ max_models_in_memory = 2
    /\ cuda = FALSE
    /\ posix \in BOOLEAN
    /\ generation = 1
    /\ lock = NoHolder
    /\ pc = [th \in Threads |-> "idle"]
    /\ cache_data = [th \in Savers |-> NoFile]
    /\ evicted = {}
    /\ request = NoRequest
    /\ burst = NotRecorded
    /\ cacheDirs = <<>>
    /\ sweep = NotLogged
    /\ ended = NotNoted
    /\ made = NotTracked

\* the initial states of the specification that follows the two
\* maintenance loops: the directories of the example under
\* model_dir/diffusers
InitLoops ==
    /\ InitService
    /\ burst = NotRecorded
    /\ cacheDirs = InitCacheDirs
    /\ sweep = NotLogged
    /\ ended = NotNoted
    /\ made = NotTracked
    /\ posix = TRUE

\* the same with the log of the sweeps
InitPersist ==
    /\ InitService
    /\ burst = NotRecorded
    /\ cacheDirs = InitCacheDirs
    /\ sweep = NoSweep
    /\ ended = NotNoted
    /\ made = NotTracked
    /\ posix = TRUE

\* the initial state of the specification that follows the directories
\* the load tasks create: none yet, beside the example's directories
\* under model_dir/diffusers
InitCache ==
    /\ InitService
    /\ burst = NotRecorded
    /\ cacheDirs = InitCacheDirs
    /\ sweep = NotLogged
    /\ ended = NotNoted
    /\ made = {}
    /\ posix = TRUE

\* the initial state of the specification that records the bursts
InitRecording ==
    /\ InitService
    /\ burst = NoBurst
    /\ cacheDirs = <<>>
    /\ sweep = NotLogged
    /\ ended = NotNoted
    /\ made = NotTracked
    /\ posix = TRUE

\* the initial states with directories under model_dir/diffusers.  The
\* disk sweep reads nothing of the registry: the cap is the default of
\* __init__ and there is no device.
InitDisk ==
    /\ InitService
    /\ max_models_in_memory = 2
    /\ ~cuda
    /\ burst = NotRecorded
    /\ sweep = NotLogged
    /\ ended = NotNoted
    /\ made = NotTracked
    /\ posix = TRUE
    /\ cacheDirs \in DiskInputs

\* the latest time stamped so far: every stamp is stored in last_used and
\* is only ever overwritten by a later one
Latest == CHOOSE t \in 0 .. MaxClock :
            /\ \E m \in ModelIds : models[m].last_used = t
            /\ \A m \in ModelIds : models[m].last_used <= t

\* values time.time() can return: the clock does not go back
Times == {t \in Latest .. Latest + 1 : t <= MaxClock}

\* the cap of m's error_count in the runs explored.  While a request holds
\* a value it has read from the counter and not yet written back, the
\* other threads may count MaxOvertake errors more: it takes two
\* increments in that window for the request's write to lower the
\* counter.
ErrorCap(m) ==
    IF request.pc = "count" /\ request.model = m
    THEN MaxCount + MaxOvertake
    ELSE MaxCount

\* the variables no action changes after construction, and the lock, which
\* an action that is one whole critical section leaves as it finds it
Config == <<max_models_in_memory, cuda, posix, generation, lock>>

\* the variables of the metadata save
SaveVars == <<cache_data, tmpFile, metaFile>>


\* ------------------------------------------------------------------------
\* _get_model_info (getOrLoad), the whole method under the lock
\* ------------------------------------------------------------------------
GetOrLoad ==
    \E id \in ModelIds \cup {UNREGISTERED}, t \in Times :
        IF id \notin ModelIds THEN UNCHANGED vars
        ELSE LET stamped == [models EXCEPT ![id].last_used = t]
                 idle == Phase(models[id]) = "unloaded"
                            /\ TasksFor(tasks, id) = {}
                 r == IF ~stamped[id].loaded /\ ~stamped[id].loading
                      THEN load_model(stamped, id)
                      ELSE [ms |-> stamped, start |-> FALSE, ret |-> FALSE]
                 d == IF r.start THEN 1 ELSE 0
             IN /\ models' = r.ms
                /\ tasks' = IF r.start THEN AddTask(tasks, Task(id, "run"))
                            ELSE tasks
                /\ burst' = CountCall(id, idle, d)
                /\ evicted' = {} /\ sweep' = Unlogged /\ ended' = Unended
                /\ made' = made
                /\ UNCHANGED <<request, stop_event, Config, pc, SaveVars, cacheDirs>>

\* ------------------------------------------------------------------------
\* GenerateImage: one request handler.  Only its _get_model_info call holds
\* the lock; the rest is one step per access to the shared ModelInfo.
\* ------------------------------------------------------------------------

\* whether the code at a position of GenerateImage runs inside
\* "with self._models_lock"
HoldsLock(position) == position = "idle"

\* the handler leaves GenerateImage
Returns == request' = NoRequest

\* request validation, model_id = request.model or DEFAULT_MODEL, and
\* model_info = self._get_model_info(model_id).  An invalid request and an
\* unregistered model (model_info is None) return an error at once.
ReqGetModelInfo ==
    /\ request.pc = "idle"
    /\ \E valid \in BOOLEAN, id \in ModelIds \cup {UNREGISTERED},
          t \in Times :
        IF ~valid \/ id \notin ModelIds THEN UNCHANGED vars
        ELSE LET stamped == [models EXCEPT ![id].last_used = t]
                 r == IF ~stamped[id].loaded /\ ~stamped[id].loading
                      THEN load_model(stamped, id)
                      ELSE [ms |-> stamped, start |-> FALSE, ret |-> FALSE]
             IN /\ models' = r.ms
                /\ tasks' = IF r.start THEN AddTask(tasks, Task(id, "run"))
                            ELSE tasks
                /\ request' = [NoRequest EXCEPT !.pc = "check",
                                                !.model = id,
                                                !.dispatched = r.start]
                /\ evicted' = {} /\ sweep' = Unlogged /\ ended' = Unended
                /\ made' = made
                /\ UNCHANGED <<stop_event, Config, pc, SaveVars, cacheDirs,
                               burst>>

\* "if not model_info.loaded or not model_info.pipeline": the error
\* "Model ... is not available or failed to load" is returned
ReqCheck ==
    /\ request.pc = "check"
    /\ IF models[request.model].loaded /\ models[request.model].pipeline
       THEN request' = [request EXCEPT !.pc = "get_pipe"]
       ELSE Returns
    /\ evicted' = {} /\ sweep' = Unlogged /\ ended' = Unended
    /\ made' = made
    /\ UNCHANGED <<models, tasks, stop_event, Config, pc, SaveVars,
                   cacheDirs, burst>>

\* pipe = model_info.pipeline
ReqGetPipe ==
    /\ request.pc = "get_pipe"
    /\ request' = [request EXCEPT !.pc = "stamp",
                                  !.pipe = models[request.model].pipeline]
    /\ evicted' = {} /\ sweep' = Unlogged /\ ended' = Unended
    /\ made' = made
    /\ UNCHANGED <<models, tasks, stop_event, Config, pc, SaveVars,
                   cacheDirs, burst>>

\* model_info.last_used = time.time()
ReqStamp ==
    /\ request.pc = "stamp"
    /\ \E t \in Times :
        models' = [models EXCEPT ![request.model].last_used = t]
    /\ request' = [request EXCEPT !.pc = "generate"]
    /\ evicted' = {} /\ sweep' = Unlogged /\ ended' = Unended
    /\ made' = made
    /\ UNCHANGED <<tasks, stop_event, Config, pc, SaveVars, cacheDirs,
                   burst>>

\* self._generate_image(pipe=pipe, ...) and the response: the engine
\* returns an image or raises; with pipe = None the call raises
ReqGenerate ==
    /\ request.pc = "generate"
    /\ \E raises \in BOOLEAN :
        IF raises \/ ~request.pipe
        THEN request' = [request EXCEPT !.pc = "error"]
        ELSE Returns
    /\ evicted' = {} /\ sweep' = Unlogged /\ ended' = Unended
    /\ made' = made
    /\ UNCHANGED <<models, tasks, stop_event, Config, pc, SaveVars,
                   cacheDirs, burst>>

\* the except handler, "model_info.error_count += 1": the read
ReqReadCount ==
    /\ request.pc = "error"
    /\ models[request.model].error_count < MaxCount
    /\ request' = [request EXCEPT
                      !.pc = "count",
                      !.seen = models[request.model].error_count]
    /\ evicted' = {} /\ sweep' = Unlogged /\ ended' = Unended
    /\ made' = made
    /\ UNCHANGED <<models, tasks, stop_event, Config, pc, SaveVars,
                   cacheDirs, burst>>

\* "model_info.error_count += 1": the write, and the error response
ReqWriteCount ==
    /\ request.pc = "count"
    /\ models' = [models EXCEPT
                     ![request.model].error_count = request.seen + 1]
    /\ Returns
    /\ evicted' = {} /\ sweep' = Unlogged /\ ended' = Unended
    /\ made' = made
    /\ UNCHANGED <<tasks, stop_event, Config, pc, SaveVars, cacheDirs,
                   burst>>

\* ------------------------------------------------------------------------
\* _load_model._load: the ModelLoader thread
\* ------------------------------------------------------------------------

\* a variant of the "Update model info" block that counts no load
UpdateModelInfo_uncounted(ms, m, t, mem) ==
    [ms EXCEPT
        ![m].pipeline = TRUE,
        ![m].loaded = TRUE,
        ![m].loading = FALSE,
        ![m].last_used = t,
        ![m].memory_usage = IF cuda THEN mem ELSE @]

\* the "Update model info" block, run with _models_lock held
UpdateModelInfo(ms, m, t, mem) ==
    [ms EXCEPT
        ![m].pipeline = TRUE,
        ![m].loaded = TRUE,
        ![m].loading = FALSE,
        ![m].load_count = @ + 1,
        ![m].last_used = t,
        ![m].memory_usage = IF cuda THEN mem ELSE @]

\* the terminal transition of a load that constructed, validated and
\* warmed up its pipeline
LoadSucceeds ==
    \E task \in BagToSet(tasks), o \in SuccessOutcomes, t \in Times,
       mem \in MemLevels :
        LET m == task.model
        IN /\ task.pc = "run"
           /\ models[m].load_count < MaxCount
           /\ models' = UpdateModelInfo(models, m, t, mem)
           /\ tasks' = RemoveTask(tasks, task)
           /\ EndBurst(m)
           /\ evicted' = {} /\ sweep' = Unlogged /\ ended' = EndNote(m, o)
           /\ made' = Mkdir(m)
           /\ UNCHANGED <<request, stop_event, Config, pc, SaveVars, cacheDirs>>

\* the load fails with the sample-size message and the model is the one
\* the substitution is written for
Substitutes(m, o) == o = "sample_size" /\ m = DEFAULT_MODEL

\* the two error handlers: load_error, loading = False, error_count += 1
LoadFails ==
    \E task \in BagToSet(tasks), o \in LoadOutcomes \ SuccessOutcomes :
        LET m == task.model
        IN /\ task.pc = "run"
           /\ ~Substitutes(m, o)
           /\ models[m].error_count < ErrorCap(m)
           /\ models' =
                [models EXCEPT
                    ![m].load_error = m,
                    ![m].loading = FALSE,
                    ![m].error_count = @ + 1]
           /\ tasks' = RemoveTask(tasks, task)
           /\ EndBurst(m)
           /\ evicted' = {} /\ sweep' = Unlogged /\ ended' = EndNote(m, o)
           /\ made' = Mkdir(m)
           /\ UNCHANGED <<request, stop_event, Config, pc, SaveVars, cacheDirs>>

\* "return self._load_model(ALT_MODEL)" in the except handler.  The thread
\* does not hold the lock, so the call is three steps.  First it reads
\* model_info.loaded of the alternate and returns if it is set.
SubstituteReadLoaded ==
    \E task \in BagToSet(tasks) :
        /\ task.pc = "run"
        /\ Substitutes(task.model, "sample_size")
        /\ tasks' = IF models[ALT_MODEL].loaded
                    THEN RemoveTask(tasks, task)
                    ELSE AddTask(RemoveTask(tasks, task),
                                 Task(task.model, "sub_loading"))
        /\ evicted' = {} /\ sweep' = Unlogged /\ ended' = Unended
        /\ made' = Mkdir(task.model)
        /\ UNCHANGED <<request, models, stop_event, Config, pc, SaveVars,
                       cacheDirs, burst>>

\* then it reads model_info.loading and returns if it is set
SubstituteReadLoading ==
    \E task \in BagToSet(tasks) :
        /\ task.pc = "sub_loading"
        /\ tasks' = IF models[ALT_MODEL].loading
                    THEN RemoveTask(tasks, task)
                    ELSE AddTask(RemoveTask(tasks, task),
                                 Task(task.model, "sub_start"))
        /\ evicted' = {} /\ sweep' = Unlogged /\ ended' = Unended
        /\ made' = made
        /\ UNCHANGED <<request, models, stop_event, Config, pc, SaveVars,
                       cacheDirs, burst>>

\* then it sets loading and starts the alternate's ModelLoader thread;
\* the thread of the default model ends here
SubstituteStart ==
    \E task \in BagToSet(tasks) :
        /\ task.pc = "sub_start"
        /\ models' = MarkLoading(models, ALT_MODEL)
        /\ tasks' = AddTask(RemoveTask(tasks, task), Task(ALT_MODEL, "run"))
        /\ evicted' = {} /\ sweep' = Unlogged /\ ended' = Unended
        /\ made' = made
        /\ UNCHANGED <<request, stop_event, Config, pc, SaveVars, cacheDirs,
                       burst>>

\* ------------------------------------------------------------------------
\* _save_cache_metadata, called by the cleanup thread and by stop
\* ------------------------------------------------------------------------

\* where a thread goes on when its save has returned
AfterSave(th) == IF th = "cleanup" THEN "idle" ELSE "unload"

\* the snapshot of the counters, taken under the lock
SaveSnapshot(th) ==
    /\ pc[th] = "snapshot"
    /\ cache_data' = [cache_data EXCEPT ![th] = Document(CacheData(models))]
    /\ pc' = [pc EXCEPT ![th] = "write"]
    /\ evicted' = {} /\ sweep' = Unlogged /\ ended' = Unended
    /\ made' = made
    /\ UNCHANGED <<request, models, tasks, stop_event, Config, tmpFile, metaFile,
                   cacheDirs, burst>>

\* the positions of a save at which its thread holds the temporary file
\* open for writing, by where that file is now: still at the temporary
\* path, there and written or truncated by the other save since, renamed
\* to the target path by the other save, or replaced there
Dumping == {"dump", "dump_shared", "moved", "moved_shared", "lost"}
AtTempPath == {"dump", "dump_shared"}

\* the other save's open file after this save has opened the temporary
\* path (which truncates the file) or has written to it
Shared(position) == IF position \in AtTempPath THEN "dump_shared"
                    ELSE position

\* the other save's open file after this save has renamed the temporary
\* file onto the target path
Moved(position) ==
    CASE position = "dump" -> "moved"
      [] position = "dump_shared" -> "moved_shared"
      [] position \in {"moved", "moved_shared"} -> "lost"
      [] OTHER -> position

\* open(temp_path, 'w'): it raises and the save returns, or the temporary
\* file is there and empty
SaveOpen(th) ==
    /\ pc[th] = "write"
    /\ \E raises \in BOOLEAN :
        IF raises
        THEN /\ pc' = [pc EXCEPT ![th] = AfterSave(th)]
             /\ cache_data' = [cache_data EXCEPT ![th] = NoFile]
             /\ tmpFile' = tmpFile
        ELSE /\ pc' = [t \in Threads |->
                          IF t = th THEN "dump" ELSE Shared(pc[t])]
             /\ cache_data' = cache_data
             /\ tmpFile' = Partial
    /\ evicted' = {} /\ sweep' = Unlogged /\ ended' = Unended
    /\ made' = made
    /\ UNCHANGED <<request, models, tasks, stop_event, Config, metaFile,
                   cacheDirs, burst>>

\* what json.dump leaves in the file: the document, or a torn one when it
\* raises or when the other save wrote to the same file
Dumped(th, raises, torn) ==
    IF raises \/ (torn /\ pc[th] \in {"dump_shared", "moved_shared"})
    THEN Partial
    ELSE cache_data[th]

\* json.dump(cache_data, f, indent=2) and the close of the file.  The
\* bytes go to the file the thread opened, wherever it is now.
SaveWrite(th) ==
    /\ pc[th] \in Dumping
    /\ \E raises \in BOOLEAN, torn \in BOOLEAN :
        /\ tmpFile' = IF pc[th] \in AtTempPath
                      THEN Dumped(th, raises, torn) ELSE tmpFile
        /\ metaFile' = IF pc[th] \in {"moved", "moved_shared"}
                       THEN Dumped(th, raises, torn) ELSE metaFile
        /\ pc' = [t \in Threads |->
                    IF t = th
                    THEN IF raises THEN AfterSave(th) ELSE "replace"
                    ELSE IF pc[th] \in AtTempPath THEN Shared(pc[t])
                    ELSE pc[t]]
        /\ cache_data' = IF raises
                         THEN [cache_data EXCEPT ![th] = NoFile]
                         ELSE cache_data
    /\ evicted' = {} /\ sweep' = Unlogged /\ ended' = Unended
    /\ made' = made
    /\ UNCHANGED <<request, models, tasks, stop_event, Config, cacheDirs,
                   burst>>

\* os.replace(temp_path, path) on POSIX: it raises when the temporary file
\* is gone or when the file system refuses, and then the target is as
\* before; else the temporary file is the target from now on, also for a
\* thread that still writes to it
SaveReplace(th) ==
    /\ pc[th] = "replace"
    /\ posix = TRUE
    /\ \E raises \in BOOLEAN :
        IF raises \/ tmpFile = NoFile
        THEN /\ UNCHANGED <<tmpFile, metaFile>>
             /\ pc' = [pc EXCEPT ![th] = AfterSave(th)]
        ELSE /\ metaFile' = tmpFile
             /\ tmpFile' = NoFile
             /\ pc' = [t \in Threads |->
                          IF t = th THEN AfterSave(th) ELSE Moved(pc[t])]
    /\ cache_data' = [cache_data EXCEPT ![th] = NoFile]
    /\ evicted' = {} /\ sweep' = Unlogged /\ ended' = Unended
    /\ made' = made
    /\ UNCHANGED <<request, models, tasks, stop_event, Config, cacheDirs,
                   burst>>

\* the branch for other systems, first half: os.remove of the target if
\* it exists; when it raises the save returns
SaveRemove(th) ==
    /\ pc[th] = "replace"
    /\ ~posix
    /\ \E raises \in BOOLEAN :
        IF metaFile # NoFile /\ raises
        THEN /\ pc' = [pc EXCEPT ![th] = AfterSave(th)]
             /\ cache_data' = [cache_data EXCEPT ![th] = NoFile]
             /\ metaFile' = metaFile
        ELSE /\ pc' = [pc EXCEPT ![th] = "rename"]
             /\ cache_data' = cache_data
             /\ metaFile' = NoFile
    /\ evicted' = {} /\ sweep' = Unlogged /\ ended' = Unended
    /\ made' = made
    /\ UNCHANGED <<request, models, tasks, stop_event, Config, tmpFile,
                   cacheDirs, burst>>

\* second half: os.rename(temp_path, path).  It raises when the temporary
\* file is gone or open in the other save, or when the target is there
\* again.
SaveRename(th) ==
    /\ pc[th] = "rename"
    /\ \E raises \in BOOLEAN :
        IF \/ raises
           \/ tmpFile = NoFile
           \/ metaFile # NoFile
           \/ \E t \in Savers \ {th} : pc[t] \in Dumping
        THEN UNCHANGED <<tmpFile, metaFile>>
        ELSE /\ metaFile' = tmpFile
             /\ tmpFile' = NoFile
    /\ pc' = [pc EXCEPT ![th] = AfterSave(th)]
    /\ cache_data' = [cache_data EXCEPT ![th] = NoFile]
    /\ evicted' = {} /\ sweep' = Unlogged /\ ended' = Unended
    /\ made' = made
    /\ UNCHANGED <<request, models, tasks, stop_event, Config, cacheDirs,
                   burst>>

\* A whole save in which open(temp_path, 'w') raises: the snapshot is taken
\* and dropped, the except branch logs the error, both files stay as they
\* were.  No action reads the files, so the registry evolves the same way
\* whatever a save does to them.
SaveUnwritable(th) ==
    /\ pc[th] = "snapshot"
    /\ pc' = [pc EXCEPT ![th] = AfterSave(th)]
    /\ evicted' = {} /\ sweep' = Unlogged /\ ended' = Unended
    /\ made' = made
    /\ UNCHANGED <<request, models, tasks, stop_event, Config, SaveVars, cacheDirs,
                   burst>>

\* ------------------------------------------------------------------------
\* _cleanup_models_loop: the ModelCleanupThread
\* ------------------------------------------------------------------------

\* a variant of the loops in which an exception ends the thread
Caught_exits(th) == "exited"

\* where a maintenance thread is after the "except Exception" of its loop
\* has logged the error: at self._stop_event.wait and then the loop test
Caught(th) == "idle"

\* a variant of the loop test of the cleanup thread that does not look at
\* the stop event
CleanupLoopTest_ignores_stop ==
    /\ pc["cleanup"] = "idle"
    /\ pc' = [pc EXCEPT !["cleanup"] = "sweep"]
    /\ evicted' = {} /\ sweep' = Unlogged /\ ended' = Unended
    /\ made' = made
    /\ UNCHANGED <<request, models, tasks, stop_event, Config, SaveVars,
                   cacheDirs, burst>>

\* "while not self._stop_event.is_set()", also after the wait has returned
CleanupLoopTest ==
    /\ pc["cleanup"] = "idle"
    /\ pc' = [pc EXCEPT !["cleanup"] = IF stop_event THEN "exited"
                                       ELSE "sweep"]
    /\ evicted' = {} /\ sweep' = Unlogged /\ ended' = Unended
    /\ made' = made
    /\ UNCHANGED <<request, models, tasks, stop_event, Config, SaveVars,
                   cacheDirs, burst>>

\* which releases raise in one sweep: a release can raise only for a model
\* that has a pipeline
Releases ==
    {rel \in [ModelIds -> BOOLEAN] :
        \A m \in ModelIds : rel[m] => models[m].pipeline}

\* the same for the memory steps, which run only with CUDA
MemReleases == {rel \in Releases : \A m \in ModelIds : rel[m] => cuda}

\* the first memory reading of a sweep; without CUDA none is taken
FirstReadings == IF cuda THEN Readings ELSE {"low"}

\* the readings after each eviction of the memory-pressure step; only a
\* model with a pipeline is followed by a reading of its own
LaterReadings ==
    {reread \in [ModelIds -> ReReadings] :
        \A m \in ModelIds : ~(cuda /\ models[m].pipeline) => reread[m] = "more"}

\* the handles a step dropped
Dropped(before, after) ==
    {m \in ModelIds : before[m].pipeline /\ ~after[m].pipeline}

\* a variant of the sweep's iteration that goes back to the wait without
\* the save
CleanupSweep_skips_save ==
    /\ pc["cleanup"] = "sweep"
    /\ \E reading \in FirstReadings, reread \in LaterReadings,
          relCount \in Releases, relMem \in MemReleases :
        LET after == cleanup_models(models, max_models_in_memory, cuda,
                                    reading, reread, relCount, relMem)
        IN /\ \A m \in ModelIds : after[m].error_count <= ErrorCap(m)
           /\ models' = after
           /\ evicted' = Dropped(models, after)
           /\ sweep' = SweepLog(reading, reread, relCount, relMem)
           /\ ended' = Unended /\ made' = made
    /\ pc' = [pc EXCEPT !["cleanup"] = "idle"]
    /\ UNCHANGED <<request, tasks, stop_event, Config, SaveVars, cacheDirs,
                   burst>>

\* self._cleanup_models(): the memory sweep
CleanupSweep ==
    /\ pc["cleanup"] = "sweep"
    /\ \E reading \in FirstReadings, reread \in LaterReadings,
          relCount \in Releases, relMem \in MemReleases :
        LET after == cleanup_models(models, max_models_in_memory, cuda,
                                    reading, reread, relCount, relMem)
        IN /\ \A m \in ModelIds : after[m].error_count <= ErrorCap(m)
           /\ models' = after
           /\ evicted' = Dropped(models, after)
           /\ sweep' = SweepLog(reading, reread, relCount, relMem)
           /\ ended' = Unended /\ made' = made
    /\ pc' = [pc EXCEPT !["cleanup"] = "snapshot"]
    /\ UNCHANGED <<request, tasks, stop_event, Config, SaveVars, cacheDirs,
                   burst>>

\* a memory sweep out of which an exception escapes.  _cleanup_models
\* catches the errors of the releases and of the memory readings itself;
\* what is raised at its start, or between the resident-count step and
\* the memory steps, reaches the loop, which skips the save.
CleanupSweepRaises ==
    /\ pc["cleanup"] = "sweep"
    /\ \E point \in {"start", "device_test"}, relCount \in Releases :
        LET after == IF point = "start" THEN models
                     ELSE CountStep(models, max_models_in_memory,
                                    relCount).ms
        IN /\ \A m \in ModelIds : after[m].error_count <= ErrorCap(m)
           /\ models' = after
           /\ evicted' = Dropped(models, after)
    /\ sweep' = Unlogged /\ ended' = Unended /\ made' = made
    /\ pc' = [pc EXCEPT !["cleanup"] = Caught("cleanup")]
    /\ UNCHANGED <<request, tasks, stop_event, Config, SaveVars, cacheDirs,
                   burst>>

\* ------------------------------------------------------------------------
\* _manage_disk_cache_loop: the DiskCacheManagerThread
\* ------------------------------------------------------------------------
DiskLoopTest ==
    /\ pc["disk"] = "idle"
    /\ pc' = [pc EXCEPT !["disk"] = IF stop_event THEN "exited" ELSE "sweep"]
    /\ evicted' = {} /\ sweep' = Unlogged /\ ended' = Unended
    /\ made' = made
    /\ UNCHANGED <<request, models, tasks, stop_event, Config, SaveVars,
                   cacheDirs, burst>>

\* self._cleanup_disk_cache(): the disk sweep
DiskSweep ==
    /\ pc["disk"] = "sweep"
    /\ LET dirs == OnDisk(cacheDirs)
           names == {dirs[i].name : i \in 1 .. Len(dirs)}
       IN \E unreadable \in SUBSET names, fails \in SUBSET names :
            /\ unreadable \cap fails = {}
            /\ Cardinality(unreadable \cup fails) <= MaxFaulty
            /\ cacheDirs' = cleanup_disk_cache(dirs, unreadable, fails)
    /\ pc' = [pc EXCEPT !["disk"] = "idle"]
    /\ evicted' = {} /\ sweep' = Unlogged /\ ended' = Unended
    /\ made' = made
    /\ UNCHANGED <<request, models, tasks, stop_event, Config, SaveVars,
                   burst>>

\* a disk sweep out of which an exception escapes: cache_dir.iterdir()
\* raises before any directory is removed
DiskSweepRaises ==
    /\ pc["disk"] = "sweep"
    /\ pc' = [pc EXCEPT !["disk"] = Caught("disk")]
    /\ evicted' = {} /\ sweep' = Unlogged /\ ended' = Unended
    /\ made' = made
    /\ UNCHANGED <<request, models, tasks, stop_event, Config, SaveVars,
                   cacheDirs, burst>>

\* ------------------------------------------------------------------------
\* stop (shutdown)
\* ------------------------------------------------------------------------

\* self._stop_event.set() and the two joins.  A join returns when its
\* thread has ended or after five seconds, so the maintenance threads may
\* still be running when stop goes on.
StopSignal ==
    /\ pc["stop"] = "idle"
    /\ stop_event' = TRUE
    /\ pc' = [pc EXCEPT !["stop"] = "snapshot"]
    /\ evicted' = {} /\ sweep' = Unlogged /\ ended' = Unended
    /\ made' = made
    /\ UNCHANGED <<request, models, tasks, Config, SaveVars, cacheDirs,
                   burst>>

\* "Unload all models" under the lock; then stop returns
StopUnload ==
    /\ pc["stop"] = "unload"
    /\ \E rel \in Releases :
        LET after == stop_unload_all(models, rel)
        IN /\ \A m \in ModelIds : after[m].error_count <= ErrorCap(m)
           /\ models' = after
           /\ evicted' = Dropped(models, after)
    /\ sweep' = Unlogged /\ ended' = Unended /\ made' = made
    /\ pc' = [pc EXCEPT !["stop"] = "returned"]
    /\ UNCHANGED <<request, tasks, stop_event, Config, SaveVars, cacheDirs,
                   burst>>

\* stop() called again after it has returned, as serve does: its SIGTERM
\* handler calls servicer.stop() and sys.exit(0), and the finally block
\* calls servicer.stop() once more.  The event is set already and the
\* joins return; the save writes the counters as they are now, or fails
\* and logs; then every resident model is unloaded.  The whole call is one
\* step: the other threads take none while it runs.
StopAgain ==
    /\ pc["stop"] = "returned"
    /\ pc["cleanup"] \notin {"write", "replace", "rename"} \cup Dumping
    /\ \E saved \in BOOLEAN, rel \in Releases :
        LET after == stop_unload_all(models, rel)
        IN /\ \A m \in ModelIds : after[m].error_count <= ErrorCap(m)
           /\ metaFile' = IF saved THEN Document(CacheData(models))
                          ELSE metaFile
           /\ tmpFile' = IF saved THEN NoFile ELSE tmpFile
           /\ models' = after
           /\ evicted' = Dropped(models, after)
    /\ sweep' = Unlogged /\ ended' = Unended /\ made' = made
    /\ pc' = [pc EXCEPT !["stop"] = "returned_again"]
    /\ UNCHANGED <<request, tasks, stop_event, Config, cache_data, cacheDirs,
                   burst>>

\* ------------------------------------------------------------------------
\* the end of the process and __init__ of the next one
\* ------------------------------------------------------------------------

\* The process ends, by a crash at any point or after stop, and a servicer
\* is constructed on the same model directory: the files are what the
\* first process left, everything else is new.
Restart ==
    /\ generation < MaxGenerations
    /\ generation' = generation + 1
    /\ models' = Construct(metaFile)
    /\ tasks' = SetToBag({Task(DEFAULT_MODEL, "run")})
    /\ stop_event' = FALSE
    /\ pc' = [th \in Threads |-> "idle"]
    /\ cache_data' = [th \in Savers |-> NoFile]
    /\ request' = NoRequest
    /\ burst' = IF burst = NotRecorded THEN NotRecorded ELSE NoBurst
    /\ evicted' = {} /\ sweep' = Unlogged /\ ended' = Unended
    /\ made' = made
    /\ lock' = NoHolder
    /\ UNCHANGED <<max_models_in_memory, cuda, posix, tmpFile, metaFile,
                   cacheDirs>>

\* ------------------------------------------------------------------------
\* The critical sections step by step: the load task's engine work, and
\* the callers of _get_model_info and of GetImageModels, each entering
\* and leaving "with self._models_lock"
\* ------------------------------------------------------------------------

\* the positions of a load task at which its engine work is still to do
\* (from_pretrained and the move to the device, _validate_model,
\* _warmup_model), and those inside the "with" blocks of its end
LongStages == {"run", "validate", "warmup"}
LockedStages == {"locked_update", "locked_fail"}

\* what no step of this section changes
Rest ==
    <<stop_event, max_models_in_memory, cuda, posix, generation, pc,
      SaveVars, cacheDirs, burst, made>>

\* these steps are no sweep and no end of a load task as the histories
\* note them
NoHistory == evicted' = {} /\ sweep' = Unlogged /\ ended' = Unended

\* the task goes on to a position
Advance(task, position) ==
    tasks' = AddTask(RemoveTask(tasks, task), Task(task.model, position))

\* a variant of the construction that runs inside the lock
LoadConstruct_under_lock ==
    \E task \in BagToSet(tasks) :
        /\ task.pc = "run"
        /\ lock = NoHolder
        /\ lock' = TaskHolder(task.model)
        /\ Advance(task, "validate")
        /\ made' = Mkdir(task.model)
        /\ NoHistory
        /\ UNCHANGED <<models, request, stop_event, max_models_in_memory,
                       cuda, posix, generation, pc, SaveVars, cacheDirs,
                       burst>>

\* model_dir.mkdir, StableDiffusionPipeline.from_pretrained,
\* pipe.to(self.device) and the scheduler
LoadConstruct ==
    \E task \in BagToSet(tasks) :
        /\ task.pc = "run"
        /\ Advance(task, "validate")
        /\ made' = Mkdir(task.model)
        /\ NoHistory
        /\ UNCHANGED <<models, request, stop_event, Config, pc, SaveVars,
                       cacheDirs, burst>>

\* self._validate_model(pipe, model_info.config) returning is_valid
LoadValidate ==
    \E task \in BagToSet(tasks) :
        /\ task.pc = "validate"
        /\ Advance(task, "warmup")
        /\ NoHistory
        /\ UNCHANGED <<models, request, lock, Rest>>

\* self._warmup_model(pipe, model_info.config); its error is only logged
LoadWarmup ==
    \E task \in BagToSet(tasks) :
        /\ task.pc = "warmup"
        /\ Advance(task, "update")
        /\ NoHistory
        /\ UNCHANGED <<models, request, lock, Rest>>

\* the construction raises, or the validation fails and _load raises
\* ValueError: the except handler drops the pipeline and goes on to its
\* "with" block (the substitution of the default model apart)
LoadRaises ==
    \E task \in BagToSet(tasks) :
        /\ task.pc \in {"run", "validate"}
        /\ Advance(task, "fail")
        /\ made' = Mkdir(task.model)
        /\ NoHistory
        /\ UNCHANGED <<models, request, stop_event, Config, pc, SaveVars,
                       cacheDirs, burst>>

\* "with self._models_lock:" of the success path (line 586) and of the
\* error handlers (lines 616, 625)
LoadEnter ==
    \E task \in BagToSet(tasks) :
        /\ task.pc \in {"update", "fail"}
        /\ lock = NoHolder
        /\ IF task.pc = "update"
           THEN models[task.model].load_count < MaxCount
           ELSE models[task.model].error_count < ErrorCap(task.model)
        /\ lock' = TaskHolder(task.model)
        /\ Advance(task, IF task.pc = "update" THEN "locked_update"
                         ELSE "locked_fail")
        /\ NoHistory
        /\ UNCHANGED <<models, request, Rest>>

\* the "Update model info" block and the end of its "with"
LoadUpdate ==
    \E task \in BagToSet(tasks), t \in Times, mem \in MemLevels :
        /\ task.pc = "locked_update"
        /\ lock = TaskHolder(task.model)
        /\ models' = UpdateModelInfo(models, task.model, t, mem)
        /\ tasks' = RemoveTask(tasks, task)
        /\ lock' = NoHolder
        /\ NoHistory
        /\ UNCHANGED <<request, Rest>>

\* load_error, loading = False, error_count += 1 and the end of the "with"
LoadRecordError ==
    \E task \in BagToSet(tasks) :
        /\ task.pc = "locked_fail"
        /\ lock = TaskHolder(task.model)
        /\ models' = [models EXCEPT ![task.model].load_error = task.model,
                                    ![task.model].loading = FALSE,
                                    ![task.model].error_count = @ + 1]
        /\ tasks' = RemoveTask(tasks, task)
        /\ lock' = NoHolder
        /\ NoHistory
        /\ UNCHANGED <<request, Rest>>

\* GenerateImage calls _get_model_info, which enters its "with"
ReqEnter ==
    /\ request.pc = "idle"
    /\ lock = NoHolder
    /\ lock' = CallHolder("request")
    /\ NoHistory
    /\ UNCHANGED <<models, tasks, request, Rest>>

\* the body of _get_model_info and its return, which leaves the "with"
ReqGetModelInfoLocked ==
    /\ lock = CallHolder("request")
    /\ \E id \in ModelIds \cup {UNREGISTERED}, t \in Times :
        IF id \notin ModelIds THEN UNCHANGED <<models, tasks, request>>
        ELSE LET stamped == [models EXCEPT ![id].last_used = t]
                 r == IF ~stamped[id].loaded /\ ~stamped[id].loading
                      THEN load_model(stamped, id)
                      ELSE [ms |-> stamped, start |-> FALSE, ret |-> FALSE]
             IN /\ models' = r.ms
                /\ tasks' = IF r.start THEN AddTask(tasks, Task(id, "run"))
                            ELSE tasks
                /\ request' = [NoRequest EXCEPT !.pc = "check",
                                                !.model = id,
                                                !.dispatched = r.start]
    /\ lock' = NoHolder
    /\ NoHistory
    /\ UNCHANGED Rest

\* GetImageModels enters its "with" (line 661)
ListEnter ==
    /\ lock = NoHolder
    /\ lock' = CallHolder("list")
    /\ NoHistory
    /\ UNCHANGED <<models, tasks, request, Rest>>

\* GetImageModels builds its response from the registry and returns
ListReturn ==
    /\ lock = CallHolder("list")
    /\ lock' = NoHolder
    /\ NoHistory
    /\ UNCHANGED <<models, tasks, request, Rest>>

\* ------------------------------------------------------------------------
\* Specifications
\* ------------------------------------------------------------------------

\* the ModelLoader threads
Loader ==
    \/ LoadSucceeds
    \/ LoadFails
    \/ SubstituteReadLoaded
    \/ SubstituteReadLoading
    \/ SubstituteStart

\* Spec: the registry under requests, load tasks, memory sweeps and
\* shutdown.  The metadata directory is not writable, so that the files
\* stay out of the state; SpecShutdown follows the files.
Next ==
    \/ GetOrLoad
    \/ Loader
    \/ CleanupLoopTest
    \/ CleanupSweep
    \/ SaveUnwritable("cleanup")
    \/ StopSignal
    \/ SaveUnwritable("stop")
    \/ StopUnload

Spec == Init /\ [][Next]_vars

\* SpecRecording: Spec with the history of the getOrLoad bursts
SpecRecording == InitRecording /\ [][Next]_vars

\* SpecAll: Spec with the disk cache manager thread
NextAll ==
    \/ Next
    \/ DiskLoopTest
    \/ DiskSweep

SpecAll == Init /\ [][NextAll]_vars

\* SpecShutdown: a shutdown with its metadata save, while requests arrive
\* and load tasks run
NextShutdown ==
    \/ GetOrLoad
    \/ Loader
    \/ StopSignal
    \/ SaveSnapshot("stop")
    \/ SaveOpen("stop")
    \/ SaveWrite("stop")
    \/ SaveReplace("stop")
    \/ StopUnload

SpecShutdown == Init /\ [][NextShutdown]_vars

\* GenerateImage
Request ==
    \/ ReqGetModelInfo
    \/ ReqCheck
    \/ ReqGetPipe
    \/ ReqStamp
    \/ ReqGenerate
    \/ ReqReadCount
    \/ ReqWriteCount

\* SpecRequest: a GenerateImage handler beside the load tasks and the
\* memory sweeps
NextRequest ==
    \/ Request
    \/ Loader
    \/ CleanupLoopTest
    \/ CleanupSweep
    \/ SaveUnwritable("cleanup")

SpecRequest == Init /\ [][NextRequest]_vars

\* SpecDisk: the disk cache manager thread on the directories it finds,
\* until shutdown
NextDisk ==
    \/ DiskLoopTest
    \/ DiskSweep
    \/ StopSignal

SpecDisk == InitDisk /\ [][NextDisk]_vars

\* SpecSweep: the memory sweeps, with what each met, beside the requests
\* and the load tasks
NextSweep ==
    \/ GetOrLoad
    \/ Loader
    \/ CleanupLoopTest
    \/ CleanupSweep
    \/ SaveUnwritable("cleanup")

SpecSweep == InitSweep /\ [][NextSweep]_vars

\* SpecFiles: the metadata files under the saves of the cleanup thread and
\* of stop, on either kind of system, and the servicer constructed on the
\* files the first one left
NextFiles ==
    \/ LoadSucceeds
    \/ LoadFails
    \/ CleanupLoopTest
    \/ CleanupSweep
    \/ StopSignal
    \/ \E th \in Savers :
          \/ SaveSnapshot(th)
          \/ SaveOpen(th)
          \/ SaveWrite(th)
          \/ SaveReplace(th)
          \/ SaveRemove(th)
          \/ SaveRename(th)
    \/ StopUnload
    \/ Restart

SpecFiles == InitFiles /\ [][NextFiles]_vars

\* SpecLoops: the two maintenance loops with sweeps and saves that fail
\* in every way, beside load tasks, until and after the stop signal
NextLoops ==
    \/ LoadSucceeds
    \/ LoadFails
    \/ CleanupLoopTest
    \/ CleanupSweep
    \/ CleanupSweepRaises
    \/ SaveSnapshot("cleanup")
    \/ SaveOpen("cleanup")
    \/ SaveWrite("cleanup")
    \/ SaveReplace("cleanup")
    \/ DiskLoopTest
    \/ DiskSweep
    \/ DiskSweepRaises
    \/ StopSignal

SpecLoops == InitLoops /\ [][NextLoops]_vars

\* SpecPersist: SpecLoops with the log of the sweeps
SpecPersist == InitPersist /\ [][NextLoops]_vars

\* SpecLock: load tasks, a GenerateImage handler and listings, with the
\* lock taken and given back in steps of their own
NextLock ==
    \/ LoadConstruct
    \/ LoadValidate
    \/ LoadWarmup
    \/ LoadRaises
    \/ LoadEnter
    \/ LoadUpdate
    \/ LoadRecordError
    \/ ReqEnter
    \/ ReqGetModelInfoLocked
    \/ ReqCheck
    \/ ReqGetPipe
    \/ ReqStamp
    \/ ReqGenerate
    \/ ReqReadCount
    \/ ReqWriteCount
    \/ ListEnter
    \/ ListReturn

SpecLock == Init /\ [][NextLock]_vars

\* SpecCache: requests and load tasks, which create their cache
\* directories, beside the disk cache manager thread
NextCache ==
    \/ GetOrLoad
    \/ Loader
    \/ DiskLoopTest
    \/ DiskSweep
    \/ DiskSweepRaises

SpecCache == InitCache /\ [][NextCache]_vars

\* SpecStopTwice: SpecShutdown with the second call of stop
NextStopTwice ==
    \/ GetOrLoad
    \/ Loader
    \/ StopSignal
    \/ SaveSnapshot("stop")
    \/ SaveOpen("stop")
    \/ SaveWrite("stop")
    \/ SaveReplace("stop")
    \/ StopUnload
    \/ StopAgain

SpecStopTwice == Init /\ [][NextStopTwice]_vars

\* the steps of the ModelCleanupThread and of the DiskCacheManagerThread
CleanupThread ==
    \/ CleanupLoopTest
    \/ CleanupSweep
    \/ CleanupSweepRaises
    \/ SaveSnapshot("cleanup")
    \/ SaveOpen("cleanup")
    \/ SaveWrite("cleanup")
    \/ SaveReplace("cleanup")

DiskThread ==
    \/ DiskLoopTest
    \/ DiskSweepRaises
    \/ DiskSweep

\* SpecStop: the two maintenance threads and the stop signal, in which
\* each thread goes on running: the scheduler gives it time, the wait on
\* the stop event returns when the event is set or the interval is over,
\* and the calls of a sweep and of a save return
NextStop ==
    \/ CleanupThread
    \/ DiskThread
    \/ StopSignal

SpecStop ==
    /\ InitLoops
    /\ [][NextStop]_vars
    /\ WF_vars(CleanupThread)
    /\ WF_vars(DiskThread)

\* SpecLoads: Spec with the note of how each load task ended
SpecLoads == InitLoads /\ [][Next]_vars

\* SpecFairLoads: requests, load tasks and memory sweeps, where a load
\* thread that has been started runs to its end
SpecFairLoads == Init /\ [][NextSweep]_vars /\ WF_vars(Loader)

\* ------------------------------------------------------------------------
\* Properties
\* ------------------------------------------------------------------------

\* a step of the memory sweep, and the step of shutdown that unloads
SweepStep == pc["cleanup"] = "sweep" /\ pc'["cleanup"] # "sweep"
UnloadStep == pc["stop"] = "unload" /\ pc'["stop"] = "returned"

\* the models whose release raised during the step
ReleaseRaised ==
    {m \in ModelIds : /\ models[m].pipeline
                      /\ models'[m].error_count > models[m].error_count}

\* C1: in every reachable state no model has both the loaded flag and the
\* loading flag set, also when the load is requested by the substitution
\* fallback of another model's load task.
C1_PhaseExclusive ==
    \A m \in ModelIds : ~(models[m].loaded /\ models[m].loading)

\* C2: in every reachable state a model holds a pipeline handle exactly
\* when its phase is Loaded.
C2_HandleIffLoaded ==
    \A m \in ModelIds :
        models[m].pipeline <=> Phase(models[m]) = "loaded"

\* C2 witness: a release has raised on a resident model, which still has
\* its handle and is still Loaded, while the other model has no handle
C2_Witness ==
    \E m \in ModelIds :
        /\ models[m].pipeline
        /\ Phase(models[m]) = "loaded"
        /\ models[m].error_count > 0
        /\ models[m].load_error = 0
        /\ \E o \in ModelIds : ~models[o].pipeline

C4_LoadingHasTask ==
    \A m \in ModelIds : models[m].loading => TasksFor(tasks, m) # {}

\* C5: a release attempt on a resident model ends with the model Unloaded
\* and its handle dropped, also when the release raises.
C5_EvictAlwaysUnloads ==
    [][(SweepStep \/ UnloadStep) =>
          \A m \in ReleaseRaised :
              ~models'[m].loaded /\ ~models'[m].pipeline]_vars

\* C6: once shutdown has returned no model is Loaded and no model holds a
\* pipeline handle.
C6_ShutdownLeavesNothing ==
    pc["stop"] = "returned" =>
        \A m \in ModelIds : ~models[m].loaded /\ ~models[m].pipeline

\* C7: when shutdown returns after a save that reached the disk, the
\* metadata file holds the counters the models have at that moment.
C7_ShutdownPersistsCounters ==
    [][(UnloadStep /\ metaFile' # NoFile) =>
          metaFile' = Document(CacheData(models'))]_vars

\* the victims the count policy is specified to take: the L - max first
\* resident models by (last_used, error_count), the default model being
\* replaced by the next-oldest non-default model when another is resident
SpecifiedVictims(ms, max) ==
    LET lm == SortLru(ms, LoadedModels(ms))
        k == Len(lm) - max
        first == {lm[i] : i \in 1 .. k}
        spare == SelectSeq(SubSeq(lm, k + 1, Len(lm)),
                           LAMBDA x : x # DEFAULT_MODEL)
    IN IF DEFAULT_MODEL \in first /\ Len(lm) > 1
       THEN (first \ {DEFAULT_MODEL})
            \cup (IF spare = <<>> THEN {} ELSE {Head(spare)})
       ELSE first

\* C8: a memory sweep that finds L resident models, L above the cap, no
\* accelerator and no release error, evicts the L - max specified victims.
C8_LruVictims ==
    [][(/\ SweepStep
        /\ ~cuda
        /\ Len(LoadedModels(models)) > max_models_in_memory
        /\ ReleaseRaised = {})
       => Dropped(models, models')
              = SpecifiedVictims(models, max_models_in_memory)]_vars

\* a load task of m makes its terminal transition in the step
Terminal(m) ==
    /\ RunningFor(tasks, m) > 0
    /\ tasks' = RemoveTask(tasks, Task(m, "run"))

C10_LoadOnlyWhenUnloaded ==
    [][\A m \in ModelIds :
          RunningFor(tasks', m) > RunningFor(tasks, m)
          => Phase(models[m]) = "unloaded"]_vars

\* C11: the GenerateImage call whose getOrLoad started the load of a model
\* returns the "not available" error: it goes no further than the test of
\* the flags and never reaches the engine.
C11_TriggeringRequestFails ==
    request.dispatched => request.pc = "check"

\* C12: every step of a GenerateImage handler that writes a field of a
\* ModelInfo is made at a position where the handler holds the lock.
C12_WritesUnderLock ==
    [][(request' # request /\ models' # models)
       => HoldsLock(request.pc)]_vars

\* a disk sweep, from the directories on disk to what it did with each
DiskStep == pc["disk"] = "sweep" /\ pc'["disk"] = "idle"

\* what the sweep of the step did with the directory named n
Did(n) ==
    LET i == CHOOSE k \in 1 .. Len(cacheDirs') : cacheDirs'[k].name = n
    IN cacheDirs'[i].last

\* the directories the sweep of the step could scan, oldest first
Scanned ==
    SortDirs(SelectSeq(OnDisk(cacheDirs),
                       LAMBDA d : Did(d.name) # "skipped"))

\* the sweep of the step met no error
NoDiskError ==
    \A i \in 1 .. Len(cacheDirs') :
        cacheDirs'[i].last \in {"present", "removed"}

\* ten times the size of s is at most nine times the quota
WithinTarget(s) == 10 * SumSizes(s) <= 9 * max_disk_cache

\* C13: a disk sweep that meets no error deletes the k oldest directories,
\* where k is the least number that leaves at most 90% of the quota: the
\* rest is within the target, and without the last deletion it was not.
C13_DiskSweepStopsAtTarget ==
    [][(DiskStep /\ NoDiskError) =>
          LET S == Scanned
              k == Cardinality({i \in 1 .. Len(S) :
                                   Did(S[i].name) = "removed"})
          IN /\ \A i \in 1 .. Len(S) :
                   Did(S[i].name) = "removed" <=> i <= k
             /\ WithinTarget(SubSeq(S, k + 1, Len(S)))
             /\ k > 0 => ~WithinTarget(SubSeq(S, k, Len(S)))]_vars

\* C13 witness: of the directories of sizes 5, 3 and 2, oldest first, the
\* sweep has deleted the first and no other
C13_Witness ==
    cacheDirs = <<[Dir(1, 0, 5) EXCEPT !.last = "removed"],
                  Dir(2, 1, 3), Dir(3, 2, 2)>>

\* the size the sweep of the step counts when it comes to the i-th of the
\* scanned directories S: the total less the directories it deleted before
Counted(S, i) ==
    SumSizes(S)
      - SumSizes(SelectSeq(SubSeq(S, 1, i - 1),
                           LAMBDA d : Did(d.name) = "removed"))

\* C14: a disk sweep comes to a directory, oldest first, exactly while the
\* total less the sizes of the directories it did delete is over the
\* target; a directory whose deletion failed stays on disk and its size
\* stays in the total.
C14_FailedDeletionNotCounted ==
    [][DiskStep =>
          LET S == Scanned
              left == OnDisk(cacheDirs')
          IN \A i \in 1 .. Len(S) :
                /\ Did(S[i].name) \in {"removed", "failed"}
                     <=> 10 * Counted(S, i) > 9 * max_disk_cache
                /\ Did(S[i].name) = "failed" =>
                     \E j \in 1 .. Len(left) : left[j].name = S[i].name]_vars

\* C14 witness: a deletion has failed and the sweep has gone on to delete
\* a newer directory
C14_Witness ==
    \E i, j \in 1 .. Len(cacheDirs) :
        /\ cacheDirs[i].last = "failed"
        /\ cacheDirs[j].last = "removed"
        /\ cacheDirs[i].last_used < cacheDirs[j].last_used

\* a memory sweep that is followed with what it met
LoggedSweep == SweepStep /\ sweep'.swept

\* the registry as the resident-count step of the sweep leaves it
AfterCount ==
    CountStep(models, max_models_in_memory, sweep'.relCount).ms

\* the non-default models resident then, largest footprint first
PressureOrder ==
    SelectSeq(SortMem(AfterCount, LoadedModels(AfterCount)),
              LAMBDA m : m # DEFAULT_MODEL)

\* the candidates the memory-pressure step comes to: those before and at
\* the first one after whose eviction the reading is at most 70%
RECURSIVE UntilEnough(_, _)
UntilEnough(order, reread) ==
    IF order = <<>> THEN {}
    ELSE IF reread[Head(order)] = "enough" THEN {Head(order)}
    ELSE {Head(order)} \cup UntilEnough(Tail(order), reread)

ReadingsSucceeded ==
    /\ sweep'.reading # "raises"
    /\ \A m \in ModelIds : sweep'.reread[m] # "raises"

\* C16: a memory sweep that does not take the conservative fallback evicts
\* the default model only when it is the only resident model.
C16_DefaultModelProtected ==
    [][(LoggedSweep /\ ReadingsSucceeded)
       => (DEFAULT_MODEL \in Dropped(models, models')
             => LoadedModels(models) = <<DEFAULT_MODEL>>)]_vars

\* C16 witness: the memory-pressure step has evicted the default model,
\* the only resident one
C16_Witness ==
    /\ sweep.swept
    /\ sweep.reading = "high"
    /\ \A m \in ModelIds : sweep.reread[m] # "raises"
    /\ evicted = {DEFAULT_MODEL}

CountErrors(m) ==
    LET lm == SortLru(models, LoadedModels(models))
        k == Len(lm) - max_models_in_memory
    IN IF /\ m # DEFAULT_MODEL
          /\ \E i \in 1 .. k : lm[i] = m
          /\ sweep'.relCount[m]
       THEN 1 ELSE 0

\* the release errors the memory-pressure step of the sweep met for m
PressureErrors(m) ==
    IF /\ cuda
       /\ sweep'.reading = "high"
       /\ AfterCount[m].pipeline
       /\ sweep'.relMem[m]
       /\ \/ m \in UntilEnough(PressureOrder, sweep'.reread)
          \/ LoadedModels(models) = <<DEFAULT_MODEL>>
    THEN 1 ELSE 0

\* C18: a memory sweep goes through its steps whatever releases raise, and
\* adds one to a model's error_count for each release of it that raised;
\* of the model's other fields it changes only the handle and the flag.
C18_EvictionErrorsCounted ==
    [][(LoggedSweep /\ ReadingsSucceeded)
       => \A m \in ModelIds :
             /\ models'[m].error_count
                  = models[m].error_count + CountErrors(m)
                      + PressureErrors(m)
             /\ models'[m] =
                  [models[m] EXCEPT
                      !.error_count = models'[m].error_count,
                      !.pipeline = models'[m].pipeline,
                      !.loaded = models'[m].loaded]]_vars

\* C18 witness: the release of the alternate model raised in the
\* resident-count step and was counted, and the sweep went on: its
\* memory-pressure step has evicted the model
C18_Witness ==
    /\ sweep.swept
    /\ sweep.relCount[ALT_MODEL]
    /\ ~sweep.relMem[ALT_MODEL]
    /\ sweep.reading = "high"
    /\ models[ALT_MODEL].error_count = 1
    /\ evicted = {ALT_MODEL}

\* the step is the error handler of a loader of m: the thread ends, it
\* starts no other, and it has written the registry without counting a load
LoadFailed(m) ==
    /\ Task(m, "run") \in BagToSet(tasks)
    /\ tasks' = RemoveTask(tasks, Task(m, "run"))
    /\ models' # models
    /\ models'[m].load_count = models[m].load_count

\* C19: a load that fails leaves its model Unloaded with no handle, records
\* an error message that names the model, adds exactly one to error_count
\* and leaves load_count as it was.
C19_LoadFailureOutcome ==
    [][\A m \in ModelIds :
          LoadFailed(m)
          => /\ Phase(models'[m]) = "unloaded"
             /\ ~models'[m].pipeline
             /\ models'[m].load_error = m
             /\ models'[m].error_count = models[m].error_count + 1
             /\ models'[m].load_count = models[m].load_count]_vars

\* the step is the terminal transition of a successful loader of m: the
\* thread ends, it starts no other, and it has written the registry
\* without counting an error
LoadSucceeded(m) ==
    /\ Task(m, "run") \in BagToSet(tasks)
    /\ tasks' = RemoveTask(tasks, Task(m, "run"))
    /\ models' # models
    /\ models'[m].error_count = models[m].error_count

\* the fields of m that the terminal transition of a successful load sets
Installed(m) ==
    /\ models'[m].pipeline
    /\ Phase(models'[m]) = "loaded"
    /\ ~models'[m].loading
    /\ models'[m].load_count = models[m].load_count + 1
    /\ models'[m].last_used \in Times
    /\ models'[m].error_count = models[m].error_count
    /\ models'[m].load_error = models[m].load_error

\* C20: a successful load sets the handle, the Loaded phase with loading
\* cleared, load_count + 1 and last_used in one step of its thread and
\* leaves error_count alone, and load_count changes in no other step.
C20_LoadSuccessOutcome ==
    [][\A m \in ModelIds :
          /\ LoadSucceeded(m) => Installed(m)
          /\ models'[m].load_count # models[m].load_count
               => LoadSucceeded(m) /\ Installed(m)]_vars

\* C20 witness: the alternate model after its successful load, its thread
\* gone
C20_Witness ==
    /\ models[ALT_MODEL].pipeline
    /\ models[ALT_MODEL].loaded
    /\ ~models[ALT_MODEL].loading
    /\ models[ALT_MODEL].load_count = 1
    /\ models[ALT_MODEL].last_used = MaxClock
    /\ models[ALT_MODEL].error_count = 0
    /\ TasksFor(tasks, ALT_MODEL) = {}

\* C21: a load whose validation passes and whose warm-up generation fails
\* ends as a successful load: the model is Loaded with its handle and
\* load_count + 1, and error_count and the recorded error are as before.
C21_WarmupFailureLoads ==
    [][\A m \in ModelIds :
          (ended'.model = m /\ ended'.outcome = "warmup_failed")
          => /\ LoadSucceeded(m)
             /\ Installed(m)]_vars

\* C21 witness: the alternate model right after its load task ended with
\* a failed warm-up
C21_Witness ==
    /\ ended.model = ALT_MODEL
    /\ ended.outcome = "warmup_failed"
    /\ models[ALT_MODEL].loaded
    /\ models[ALT_MODEL].load_count = 1
    /\ models[ALT_MODEL].error_count = 0
    /\ models[ALT_MODEL].load_error = 0

\* the file is a document a save has written: one entry for each
\* registered model, each with the three counters
WrittenBySave(file) ==
    /\ file.kind = "complete"
    /\ DOMAIN file.data = ModelIds
    /\ \A m \in ModelIds :
          DOMAIN file.data[m] = {"last_used", "load_count", "error_count"}

\* the registry ms has, for every model, the counters of the document
SameCounters(ms, doc) ==
    \A m \in ModelIds :
        /\ ms[m].last_used = doc.data[m].last_used
        /\ ms[m].load_count = doc.data[m].load_count
        /\ ms[m].error_count = doc.data[m].error_count

\* the step in which a save takes its snapshot
SnapshotStep(th) == pc[th] = "snapshot" /\ pc'[th] = "write"

\* the step in which a servicer is constructed on the files of the last
RestartStep == generation' # generation

\* C22: the document of a save, loaded into a new registry, gives every
\* model the last_used, load_count and error_count it had at the save, and
\* a save of a registry that was just loaded from a saved document writes
\* that document again.
C22_MetadataRoundTrip ==
    [][/\ \A th \in Savers :
            SnapshotStep(th)
            => LET back == load_cache_metadata(InitModels, cache_data'[th])
               IN /\ WrittenBySave(cache_data'[th])
                  /\ SameCounters(models, cache_data'[th])
                  /\ CacheData(back) = CacheData(models)
       /\ (RestartStep /\ WrittenBySave(metaFile))
            => /\ SameCounters(models', metaFile)
               /\ Document(CacheData(models')) = metaFile]_vars

\* C22 witness: the second servicer right after its construction on a
\* document the first one saved, with counters that are not the defaults
C22_Witness ==
    /\ generation = 2
    /\ WrittenBySave(metaFile)
    /\ metaFile.data[DEFAULT_MODEL].load_count = 1
    /\ metaFile.data[DEFAULT_MODEL].last_used = 1
    /\ Document(CacheData(models)) = metaFile
    /\ models = Construct(metaFile)
    /\ \A th \in Threads : pc[th] = "idle"

\* C23: no step leaves a torn document at the target path of the metadata,
\* and no step takes a complete document away from it without putting a
\* complete one there.
C23_AtomicSave ==
    [][/\ metaFile'.kind = "partial" => metaFile.kind = "partial"
       /\ metaFile.kind = "complete" => metaFile'.kind = "complete"]_vars

\* the counters of m are the defaults of ModelInfo
DefaultCounters(m) ==
    /\ models[m].last_used = 0
    /\ models[m].load_count = 0
    /\ models[m].error_count = 0

\* the state a constructor leaves that has come through a metadata file of
\* any kind: the registry has the registered models and no other, only
\* the counters of a model can differ from a new ModelInfo, they are the
\* defaults when the file is missing or does not parse and for a model the
\* document has no entry for, and the service runs: the default model's
\* load and the maintenance threads are started
Constructed ==
    /\ DOMAIN models = ModelIds
    /\ \A m \in ModelIds :
          /\ models[m] =
               [NewModelInfo EXCEPT
                   !.loading = (m = DEFAULT_MODEL),
                   !.last_used = models[m].last_used,
                   !.load_count = models[m].load_count,
                   !.error_count = models[m].error_count]
          /\ metaFile.kind # "complete" => DefaultCounters(m)
          /\ (metaFile.kind = "complete" /\ m \notin DOMAIN metaFile.data)
               => DefaultCounters(m)
    /\ tasks = SetToBag({Task(DEFAULT_MODEL, "run")})
    /\ \A th \in Threads : pc[th] = "idle"
    /\ ~stop_event

\* C24: a servicer is constructed whatever the metadata file is: with no
\* file or with one that does not parse every model has the default
\* counters, and an entry for an id that is not registered creates no
\* state and changes none.
C24_MetadataLoadNonFatal ==
    /\ Constructed
    /\ [][RestartStep => Constructed']_vars

\* C24 witness: the second servicer, constructed on a document with an
\* entry for an unregistered id, or on a file that does not parse which
\* the first servicer left
C24_Witness ==
    /\ generation = 2
    /\ \/ metaFile.kind = "complete" /\ UNREGISTERED \in DOMAIN metaFile.data
       \/ metaFile.kind = "partial" /\ tmpFile # NoFile
    /\ models = Construct(metaFile)
    /\ \A th \in Threads : pc[th] = "idle"

\* the two maintenance threads, and the positions inside an iteration
Loops == {"cleanup", "disk"}
InIteration == {"sweep", "snapshot", "write", "replace"} \cup Dumping

\* C25: whatever a sweep or a save of an iteration does, raising
\* included, the step leaves its maintenance thread inside the iteration
\* or at the loop test; a thread ends only at the loop test with the stop
\* signal raised.
C25_LoopsSurviveErrors ==
    [][\A th \in Loops :
          /\ pc[th] \in InIteration => pc'[th] \in InIteration \cup {"idle"}
          /\ (pc'[th] = "exited" /\ pc[th] # "exited")
                => pc[th] = "idle" /\ stop_event]_vars

\* C25 witness: a save of the cleanup thread raised in json.dump and left
\* a torn temporary file, and the thread is in its next sweep without any
\* stop signal
C25_Witness ==
    /\ tmpFile = Partial
    /\ metaFile = NoFile
    /\ pc["cleanup"] = "sweep"
    /\ pc["disk"] = "sweep"
    /\ ~stop_event

\* C26: from the stop signal on, no maintenance thread begins another
\* sweep, and each of them ends.
C26_CooperativeStop ==
    /\ [][\A th \in Loops :
             stop_event => ~(pc[th] = "idle" /\ pc'[th] = "sweep")]_vars
    /\ stop_event ~> (\A th \in Loops : pc[th] = "exited")

\* C26 witness: the stop signal was raised while the cleanup thread was in
\* a save, and both maintenance threads have ended
C26_Witness ==
    /\ stop_event
    /\ \A th \in Loops : pc[th] = "exited"
    /\ tmpFile # NoFile

\* C27: the response of GetImageModels has one entry for each registered
\* model, in registry order, and the status of an entry is "loading"
\* exactly when the model is Loading, "loaded" exactly when it is Loaded,
\* and a not-loaded or error status only when it is Unloaded.
C27_ListReportsPhase ==
    LET response == GetImageModels(models)
    IN /\ Len(response) = NumModels
       /\ \A i \in 1 .. Len(response) :
             LET entry == response[i]
                 phase == Phase(models[entry.id])
             IN /\ entry.id = Registry[i]
                /\ entry.status = "loading" <=> phase = "loading"
                /\ entry.status = "loaded" <=> phase = "loaded"
                /\ entry.status \in {"not_loaded", "error"}
                     => phase = "unloaded"

\* C28: no step of any thread lowers the load_count or the error_count of
\* a model.
C28_CountersMonotone ==
    [][\A m \in ModelIds :
          /\ models'[m].load_count >= models[m].load_count
          /\ models'[m].error_count >= models[m].error_count]_vars

\* a step that dispatches a load task besides the ones already running
\* (the substitution of _load replaces its own task and adds none)
DispatchStep == BagCardinality(tasks') > BagCardinality(tasks)

\* C29: a step that dispatches a load task for a model runs the memory
\* sweep (the eviction policy) in the same critical section, before the
\* load task starts.
C29_EvictionBeforeLoad == [][DispatchStep => sweep'.swept]_vars

\* the load task of the default model has called _load_model for the
\* alternate and returned: the default model is marked loading and no load
\* task of it remains
Substituted ==
    /\ models[DEFAULT_MODEL].loading
    /\ TasksFor(tasks, DEFAULT_MODEL) = {}

\* the load task of the alternate has ended, one way or the other
AlternateSettled ==
    /\ TasksFor(tasks, ALT_MODEL) = {}
    /\ Status(models[ALT_MODEL]) \in {"loaded", "error"}

\* C30: once the load of the default model has been handed over to the
\* alternate and the alternate's load has ended, the listing comes to
\* show the default model with the alternate's status.
C30_SubstitutionSurfaces ==
    (Substituted /\ AlternateSettled)
        ~> (GetImageModels(models)[DEFAULT_MODEL].status
               = GetImageModels(models)[ALT_MODEL].status)

\* C31: after a memory sweep in which no release raised, the number of
\* resident models is at most max_models_in_memory.
C31_ResidentCountBounded ==
    [][(SweepStep /\ ReleaseRaised = {})
       => Len(LoadedModels(models')) <= max_models_in_memory]_vars

C33_LongWorkOutsideLock ==
    /\ lock.kind = "task"
         => \E task \in BagToSet(tasks) :
               task.model = lock.model /\ task.pc \in LockedStages
    /\ lock.kind = "request" => request.pc = "idle"
    /\ lock = CallHolder("request") => ENABLED ReqGetModelInfoLocked
    /\ lock = CallHolder("list") => ENABLED ListReturn

\* C33 witness: a _get_model_info call is inside the lock while
\* the load task of the default model is warming up its pipeline
C33_Witness ==
    /\ lock = CallHolder("request")
    /\ Task(DEFAULT_MODEL, "warmup") \in BagToSet(tasks)

\* C34: every directory a load task has created for its model's cache is a
\* subdirectory of the directory the disk sweep scans.
C34_LoadedCachesUnderQuota == \A d \in made : d.parent = CacheRoot

\* C35: in every state at most one ModelLoader thread is running for each
\* registered model, whoever started it.
C35_OneLoadInFlight == \A m \in ModelIds : RunningFor(tasks, m) <= 1

\* the step in which a GenerateImage handler calls the engine
GenerateStep == request.pc = "generate" /\ request' # request

\* C36: when a GenerateImage handler calls the engine, the handle it
\* passes is present and the model is Loaded, with its handle in the
\* registry, at that moment.
C36_NoEvictedHandle ==
    [][GenerateStep
       => /\ request.pipe
          /\ IsResident(models[request.model])]_vars

\* C37: on POSIX, also when the save of the cleanup thread and the save of
\* stop overlap, every step that changes the target path of the metadata
\* puts there the complete document of one save's snapshot.
C37_OverlappingSaves ==
    [][(posix /\ metaFile' # metaFile)
       => /\ WrittenBySave(metaFile')
          /\ \E th \in Savers : metaFile' = cache_data[th]]_vars

\* C38: a memory sweep that reads the device memory without error and
\* finds no pressure leaves at least min(L, max_models_in_memory) models
\* resident, L being how many were resident before it, and evicts nothing
\* when L is at most max_models_in_memory.
C38_CountStepNeverOverEvicts ==
    [][(LoggedSweep /\ sweep'.reading = "low")
       => LET L == Len(LoadedModels(models))
          IN /\ Len(LoadedModels(models'))
                  >= Min2(L, max_models_in_memory)
             /\ L <= max_models_in_memory => Dropped(models, models') = {}
             /\ Cardinality(Dropped(models, models'))
                  <= Max2(0, L - max_models_in_memory)]_vars

\* C38 witness: a sweep without memory pressure has evicted a model
C38_Witness ==
    /\ sweep.swept
    /\ sweep.reading = "low"
    /\ evicted # {}

\* the step is the first getOrLoad call for m since m has been Unloaded
\* with no load task
FirstCall(m) ==
    /\ burst = NoBurst
    /\ burst'.model = m
    /\ burst'.calls = 1

SecondStop == pc["stop"] = "returned" /\ pc'["stop"] = "returned_again"

\* C40: a second call of stop evicts nothing, leaves the phase and the
\* counters of every model as they were when it was called, and leaves
\* the metadata file as it was.
C40_ShutdownIdempotent ==
    [][SecondStop
       => /\ Dropped(models, models') = {}
          /\ \A m \in ModelIds : Phase(models'[m]) = Phase(models[m])
          /\ CacheData(models') = CacheData(models)
          /\ metaFile' = metaFile]_vars

====
